---- MODULE Spec2Model ----
(***************************************************************************)
(* FocusBand: the active-session page (client/src/pages/active-session.tsx) *)
(* with its metric batching, the camera feed's per-frame scoring            *)
(* (CameraFeed.detectFaces) and the in-memory storage behind the REST API.  *)
(*                                                                          *)
(* Units: time in milliseconds, eye-aspect-ratio in hundredths (0.25 = 25), *)
(* gaze offsets in pixels, head angles in half degrees (20 degrees = 40).   *)
(* The empty session id "" is 0; server ids are 1, 2, ...                   *)
(* The clock is kept as sinceStart = Date.now() - sessionStartTime.current  *)
(* as of its last reading or assignment (time 0 is the page load, where the *)
(* ref holds 0): every use of the two in the page is through that           *)
(* difference, and the difference is read by the 1 s interval alone.        *)
(***************************************************************************)
EXTENDS Integers, Sequences, FiniteSets, TLC

\* ---------------------------------------------------------------- bounds
MaxSamples == 2       \* samples that get recorded
MaxStops == 1         \* handleStopSession calls awaiting at the same time
MaxSessions == 2      \* sessions the server creates
MaxStarts == 1        \* handleStartSession calls awaiting at the same time
MaxSince == 1000      \* last value of Date.now() - sessionStartTime.current
MaxNow == 10001       \* time of the last frame that is scored
MaxUuids == 4         \* ids that randomUUID hands out
MaxBatch == 2         \* metrics in one POST /api/metrics

\* ------------------------------------------------------ program constants
maxWaitIterations == 50
BLINK_EYE_OPENNESS == 15
Clock == {t \in {0, 500, 1000, 1001} : t <= MaxSince}
NoSession == 0
NULL == 0 - 1
DateSet == 1
Other == [op |-> "other"]

VARIABLES
  \* React state of ActiveSession
  isSessionActive, isPaused, sessionDuration, liveData,
  allScores, blinkCounter, eyeOpennessSum, dataPointCount, pendingMetrics,
  \* refs of ActiveSession
  sinceStart, currentSessionId, isSavingMetricsRef, isStoppingRef,
  timerInterval, metricsInterval,
  \* async calls that are awaiting
  starts, stops, batches,
  \* CameraFeed
  cameraOn, lateFrame,
  \* server storage
  srvSessions, srvStored,
  \* history: the session and the blink flag of each metric created so far,
  \* the last operation
  created, last,
  \* refs of CameraFeed, the time of its last frame (ms since it mounted),
  \* the inputs of that frame and the data it handed to onDataUpdate
  lastBlinkTime, blinkCount, blinkWindowStart, now, frame, emitted,
  \* a second mounted CameraFeed: the same refs, frame and data as a record
  twin,
  \* MemStorage: the two maps, the UUIDs drawn so far; the last HTTP response
  sessions, attentionMetrics, uuids, response,
  \* the low-attention alert effect of ActiveSession: the state it reads, its
  \* two refs, Date.now(), and what it has sent, as a record
  alert,
  \* the session timer of ActiveSession on a wall clock: Date.now(),
  \* sessionStartTime, the state the timer depends on, and the time the
  \* session has spent not paused, as a record
  stopwatch

reactState == <<isSessionActive, isPaused, sessionDuration, liveData,
                allScores, blinkCounter, eyeOpennessSum, dataPointCount,
                pendingMetrics>>
refs == <<sinceStart, currentSessionId, isSavingMetricsRef,
          isStoppingRef, timerInterval, metricsInterval>>
calls == <<starts, stops, batches>>
camera == <<cameraOn, lateFrame>>
server == <<srvSessions, srvStored>>
detector == <<lastBlinkTime, blinkCount, blinkWindowStart, now, frame, emitted>>
page == <<reactState, refs, calls, camera, server, created, last>>
storage == <<sessions, attentionMetrics, uuids, response>>
elsewhere == <<detector, twin, storage, alert, stopwatch>>
vars == <<page, elsewhere>>

\* ---------------------------------------------------------------- helpers
RemoveAt(s, i) == SubSeq(s, 1, i - 1) \o SubSeq(s, i + 1, Len(s))

slice(s, n) == SubSeq(s, n + 1, Len(s))

\* MemStorage.createAttentionMetric for every metric of a batch: each call
\* stores one more AttentionMetric under a fresh id; stored[n] counts the
\* stored metrics made from the n-th recorded sample
RECURSIVE StoreAll(_, _)
StoreAll(stored, ms) ==
  IF ms = <<>> THEN stored
  ELSE StoreAll([stored EXCEPT ![Head(ms).n] = @ + 1], Tail(ms))

\* frames the camera feed hands to onDataUpdate: no face; eyes open, looking
\* at the screen; eyes closed (eye-aspect-ratio 0.10)
NoFace == [faceDetected |-> FALSE, attentionScore |-> 0, eyeOpenness |-> 0]
EyesOpen == [faceDetected |-> TRUE, attentionScore |-> 100, eyeOpenness |-> 30]
EyesClosed == [faceDetected |-> TRUE, attentionScore |-> 80, eyeOpenness |-> 10]
Frames == {EyesOpen, EyesClosed, NoFace}

\* mutant: the effect arms the intervals whenever the session is active
SessionTimerEffect_IgnorePause(active, paused) == active

\* the session timer effect: both intervals run iff active and not paused
SessionTimerEffect(active, paused) == active /\ ~paused

\* the CameraFeed effect: isActive = isSessionActive && !isPaused. stopCamera
\* cancels the pending animation frame, but a detectFaces call that awaits
\* estimateFaces still hands its frame to onDataUpdate (lateFrame)
CameraEffect(active, paused) ==
  IF active /\ ~paused
  THEN /\ cameraOn' = TRUE
       /\ lateFrame' = FALSE
  ELSE /\ cameraOn' = FALSE
       /\ lateFrame' = (cameraOn \/ lateFrame)

Effects(active, paused) ==
  /\ timerInterval' = SessionTimerEffect(active, paused)
  /\ metricsInterval' = SessionTimerEffect(active, paused)
  /\ CameraEffect(active, paused)

\* ------------------------------------------------- CameraFeed.detectFaces
\* numbers that are not finite
NaN == 0 - 1000
Infinity == 1000000

EAR_THRESHOLD == 20

\* inputs of a frame: the average eye-aspect-ratio (NaN when the eye corner
\* landmarks coincide), the offsets of the nose tip from the face centre and
\* the time at which the frame is scored
EARs == {NaN, 19, 20, 24, 25}
Offsets == {0 - 41, 0 - 16, 0, 15, 16, 40, 41}
FrameTimes == {t \in {0, 300, 301, 2000, 10000, 10001, 10002} : t <= MaxNow}

NoFrame == [avgEAR |-> 0, gazeOffsetX |-> 0, gazeOffsetY |-> 0,
            blinkRate |-> [num |-> 0, den |-> 1]]

Abs(x) == IF x < 0 THEN 0 - x ELSE x
Max(a, b) == IF a > b THEN a ELSE b
Min(a, b) == IF a < b THEN a ELSE b

\* a < b of two numbers of which a may be NaN
Less(a, b) == a # NaN /\ a < b

\* blinkCount / ((now - blinkWindowStart) / 1000) * 60 as a fraction; 0 / 0
\* is NaN and k / 0 is Infinity
BlinkRate(count, elapsed) == [num |-> count * 60000, den |-> elapsed]

\* rate > limit
RateAbove(rate, limit) ==
  IF rate.den = 0 THEN rate.num > 0 ELSE rate.num > limit * rate.den

\* Math.round(rate)
Round(rate) ==
  IF rate.den = 0
  THEN (IF rate.num > 0 THEN Infinity ELSE NaN)
  ELSE (2 * rate.num + rate.den) \div (2 * rate.den)

\* mutant: the vertical offset is looked at first
gazeDirection_VerticalFirst(gazeOffsetX, gazeOffsetY) ==
  IF Abs(gazeOffsetY) > 15
  THEN (IF gazeOffsetY > 0 THEN "down" ELSE "up")
  ELSE IF Abs(gazeOffsetX) > 15
  THEN (IF gazeOffsetX > 0 THEN "right" ELSE "left")
  ELSE "center"

gazeDirection(gazeOffsetX, gazeOffsetY) ==
  IF Abs(gazeOffsetX) > 15
  THEN (IF gazeOffsetX > 0 THEN "right" ELSE "left")
  ELSE IF Abs(gazeOffsetY) > 15
  THEN (IF gazeOffsetY > 0 THEN "down" ELSE "up")
  ELSE "center"

\* gazeOffset * 0.5 degrees, in half degrees
headAngle(gazeOffset) == gazeOffset

\* mutant: the blink rate penalty starts at 20 blinks per minute
attentionScore_BlinkLimit20(avgEAR, gaze, headYaw, headPitch, blinkRate) ==
  LET s1 == IF Less(avgEAR, 25) THEN 100 - 20 ELSE 100
      s2 == IF gaze # "center" THEN s1 - 30 ELSE s1
      s3 == IF Abs(headYaw) > 40 \/ Abs(headPitch) > 40 THEN s2 - 25 ELSE s2
      s4 == IF RateAbove(blinkRate, 20) THEN s3 - 10 ELSE s3
  IN  Max(0, Min(100, s4))

\* mutant: the penalties are doubled and the result is not clamped
attentionScore_Unclamped(avgEAR, gaze, headYaw, headPitch, blinkRate) ==
  LET s1 == IF Less(avgEAR, 25) THEN 100 - 40 ELSE 100
      s2 == IF gaze # "center" THEN s1 - 60 ELSE s1
      s3 == IF Abs(headYaw) > 40 \/ Abs(headPitch) > 40 THEN s2 - 50 ELSE s2
      s4 == IF RateAbove(blinkRate, 30) THEN s3 - 20 ELSE s3
  IN  s4

\* "Attention score"
attentionScore(avgEAR, gaze, headYaw, headPitch, blinkRate) ==
  LET s1 == IF Less(avgEAR, 25) THEN 100 - 20 ELSE 100
      s2 == IF gaze # "center" THEN s1 - 30 ELSE s1
      s3 == IF Abs(headYaw) > 40 \/ Abs(headPitch) > 40 THEN s2 - 25 ELSE s2
      s4 == IF RateAbove(blinkRate, 30) THEN s3 - 10 ELSE s3
  IN  Max(0, Min(100, s4))

NoFaceData ==
  [attentionScore |-> 0, eyeOpenness |-> 0, blinkRate |-> 0,
   gazeDirection |-> "unknown", headYaw |-> 0, headPitch |-> 0,
   faceDetected |-> FALSE]

\* Date.now() when the page is mounted, and the later readings of it (ms)
AlertClock == {100000, 104000, 109999, 110000, 120000}
StartOfClock == CHOOSE t \in AlertClock : \A u \in AlertClock : t <= u

\* ------------------------------------------------------------------- Init
Init ==
  /\ isSessionActive = FALSE
  /\ isPaused = FALSE
  /\ sessionDuration = 0
  /\ liveData = NoFace
  /\ allScores = <<>>
  /\ blinkCounter = 0
  /\ eyeOpennessSum = 0
  /\ dataPointCount = 0
  /\ pendingMetrics = <<>>
  /\ sinceStart = 0
  /\ currentSessionId = NoSession
  /\ isSavingMetricsRef = FALSE
  /\ isStoppingRef = FALSE
  /\ timerInterval = FALSE
  /\ metricsInterval = FALSE
  /\ starts = <<>>
  /\ stops = <<>>
  /\ batches = <<>>
  /\ cameraOn = FALSE
  /\ lateFrame = FALSE
  /\ srvSessions = <<>>
  /\ srvStored = <<>>
  /\ created = <<>>
  /\ last = Other
  /\ lastBlinkTime = 0
  /\ blinkCount = 0
  /\ blinkWindowStart = 0
  /\ now = 0
  /\ frame = NoFrame
  /\ emitted = NoFaceData
  /\ twin = [lastBlinkTime |-> 0, blinkCount |-> 0, blinkWindowStart |-> 0,
             now |-> 0, frame |-> NoFrame, emitted |-> NoFaceData]
  /\ sessions = <<>>
  /\ attentionMetrics = <<>>
  /\ uuids = 0
  /\ response = [req |-> "", status |-> 0]
  /\ alert = [isSessionActive |-> FALSE, isPaused |-> FALSE,
              attentionScore |-> 0, faceDetected |-> FALSE,
              lastAlertTimeRef |-> 0, lastBelowThresholdRef |-> FALSE,
              now |-> StartOfClock, cameraOn |-> FALSE, lateFrame |-> FALSE,
              resets |-> 0, vibrations |-> <<>>, vibrated |-> FALSE,
              smsSent |-> FALSE]
  /\ stopwatch = [now |-> 0, sessionStartTime |-> 0, sessionDuration |-> 0,
                  isSessionActive |-> FALSE, isPaused |-> FALSE,
                  stopping |-> 0, session |-> 0, unpaused |-> 0]

\* ------------------------------------------------------- handleStartSession
StartClick ==
  /\ ~isSessionActive
  /\ Len(starts) < MaxStarts
  /\ starts' = Append(starts, [pc |-> "media"])
  /\ last' = Other
  /\ UNCHANGED elsewhere
  /\ UNCHANGED <<reactState, refs, stops, batches, camera, server, created>>

StartMedia(i, ok) ==
  /\ i \in DOMAIN starts
  /\ starts[i].pc = "media"
  /\ IF ok
     THEN /\ sinceStart' = 0
          /\ starts' = [starts EXCEPT ![i].pc = "post"]
     ELSE /\ starts' = RemoveAt(starts, i)
          /\ UNCHANGED sinceStart
  /\ last' = Other
  /\ UNCHANGED elsewhere
  /\ UNCHANGED <<reactState, currentSessionId, isSavingMetricsRef, isStoppingRef,
                 timerInterval, metricsInterval, stops, batches, camera,
                 server, created>>

StartPostDone(i, ok) ==
  /\ i \in DOMAIN starts
  /\ starts[i].pc = "post"
  /\ starts' = RemoveAt(starts, i)
  /\ IF ok
     THEN /\ Len(srvSessions) < MaxSessions
          /\ srvSessions' = Append(srvSessions,
                 [endTime |-> NULL, duration |-> NULL])
          /\ currentSessionId' = Len(srvSessions) + 1
          /\ isSessionActive' = TRUE
          /\ isPaused' = FALSE
          /\ sessionDuration' = 0
          /\ allScores' = <<>>
          /\ blinkCounter' = 0
          /\ eyeOpennessSum' = 0
          /\ dataPointCount' = 0
          /\ pendingMetrics' = <<>>
          /\ Effects(TRUE, FALSE)
     ELSE UNCHANGED <<srvSessions, currentSessionId, isSessionActive, isPaused,
                      sessionDuration, allScores, blinkCounter, eyeOpennessSum,
                      dataPointCount, pendingMetrics, timerInterval,
                      metricsInterval, camera>>
  /\ last' = Other
  /\ UNCHANGED elsewhere
  /\ UNCHANGED <<liveData, sinceStart, isSavingMetricsRef, isStoppingRef,
                 stops, batches, srvStored, created>>

\* -------------------------------------------------------- handlePauseResume
handlePauseResume ==
  /\ isSessionActive
  /\ sinceStart' = IF isPaused THEN sessionDuration * 1000 ELSE sinceStart
  /\ isPaused' = ~isPaused
  /\ Effects(isSessionActive, ~isPaused)
  /\ last' = Other
  /\ UNCHANGED elsewhere
  /\ UNCHANGED <<isSessionActive, sessionDuration, liveData, allScores,
                 blinkCounter, eyeOpennessSum, dataPointCount, pendingMetrics,
                 currentSessionId, isSavingMetricsRef, isStoppingRef, calls,
                 server, created>>

\* ----------------------------------------------------- the two intervals
\* the 1 s interval fires: t is Date.now() - sessionStartTime.current as read
\* by the callback; the clock never runs backwards
TimerTick(t) ==
  /\ timerInterval
  /\ t >= sinceStart
  /\ sinceStart' = t
  /\ sessionDuration' = t \div 1000
  /\ last' = Other
  /\ UNCHANGED elsewhere
  /\ UNCHANGED <<isSessionActive, isPaused, liveData, allScores, blinkCounter,
                 eyeOpennessSum, dataPointCount, pendingMetrics,
                 currentSessionId, isSavingMetricsRef, isStoppingRef,
                 timerInterval, metricsInterval, calls, camera, server, created>>

\* mutant: the tick does not look at the in-progress flag
MetricsTick_NoGuard ==
  /\ metricsInterval
  /\ IF FALSE
     THEN /\ last' = [op |-> "tickSkipped"]
          /\ UNCHANGED <<isSavingMetricsRef, batches>>
     ELSE IF Len(pendingMetrics) > 0 /\ currentSessionId # NoSession
     THEN /\ batches' = Append(batches, [metricsToSave |-> pendingMetrics,
                                         saveCount |-> Len(pendingMetrics)])
          /\ isSavingMetricsRef' = TRUE
          /\ last' = [op |-> "tickSave"]
     ELSE /\ last' = Other
          /\ UNCHANGED <<isSavingMetricsRef, batches>>
  /\ UNCHANGED elsewhere
  /\ UNCHANGED <<reactState, sinceStart, currentSessionId, isStoppingRef,
                 timerInterval, metricsInterval, starts, stops, camera,
                 server, created>>

\* mutant: the tick does not look at the length of the queue
MetricsTick_NoQueueCheck ==
  /\ metricsInterval
  /\ IF isSavingMetricsRef
     THEN /\ last' = [op |-> "tickSkipped"]
          /\ UNCHANGED <<isSavingMetricsRef, batches>>
     ELSE IF currentSessionId # NoSession
     THEN /\ batches' = Append(batches, [metricsToSave |-> pendingMetrics,
                                         saveCount |-> Len(pendingMetrics)])
          /\ isSavingMetricsRef' = TRUE
          /\ last' = [op |-> "tickSave"]
     ELSE /\ last' = Other
          /\ UNCHANGED <<isSavingMetricsRef, batches>>
  /\ UNCHANGED elsewhere
  /\ UNCHANGED <<reactState, sinceStart, currentSessionId, isStoppingRef,
                 timerInterval, metricsInterval, starts, stops, camera,
                 server, created>>

\* the 10 s interval fires
MetricsTick ==
  /\ metricsInterval
  /\ IF isSavingMetricsRef
     THEN /\ last' = [op |-> "tickSkipped"]
          /\ UNCHANGED <<isSavingMetricsRef, batches>>
     ELSE IF Len(pendingMetrics) > 0 /\ currentSessionId # NoSession
     THEN /\ batches' = Append(batches, [metricsToSave |-> pendingMetrics,
                                         saveCount |-> Len(pendingMetrics)])
          /\ isSavingMetricsRef' = TRUE
          /\ last' = [op |-> "tickSave"]
     ELSE /\ last' = Other
          /\ UNCHANGED <<isSavingMetricsRef, batches>>
  /\ UNCHANGED elsewhere
  /\ UNCHANGED <<reactState, sinceStart, currentSessionId, isStoppingRef,
                 timerInterval, metricsInterval, starts, stops, camera,
                 server, created>>

\* mutant: a failed save drops the metrics it sent from the queue
BatchDone_DropOnFailure(i, ok) ==
  /\ i \in DOMAIN batches
  /\ batches' = RemoveAt(batches, i)
  /\ IF ok
     THEN /\ srvStored' = StoreAll(srvStored, batches[i].metricsToSave)
          /\ pendingMetrics' =
               IF Len(pendingMetrics) >= batches[i].saveCount
               THEN slice(pendingMetrics, batches[i].saveCount)
               ELSE pendingMetrics
     ELSE /\ pendingMetrics' = slice(pendingMetrics, batches[i].saveCount)
          /\ UNCHANGED srvStored
  /\ isSavingMetricsRef' = FALSE
  /\ last' = IF ok THEN Other ELSE [op |-> "batchFailed"]
  /\ UNCHANGED elsewhere
  /\ UNCHANGED <<isSessionActive, isPaused, sessionDuration, liveData, allScores,
                 blinkCounter, eyeOpennessSum, dataPointCount, sinceStart,
                 currentSessionId, isStoppingRef, timerInterval, metricsInterval,
                 starts, stops, camera, srvSessions, created>>

\* mutant: a failed save leaves the in-progress flag set
BatchDone_FlagStaysOnFailure(i, ok) ==
  /\ i \in DOMAIN batches
  /\ batches' = RemoveAt(batches, i)
  /\ IF ok
     THEN /\ srvStored' = StoreAll(srvStored, batches[i].metricsToSave)
          /\ pendingMetrics' =
               IF Len(pendingMetrics) >= batches[i].saveCount
               THEN slice(pendingMetrics, batches[i].saveCount)
               ELSE pendingMetrics
     ELSE UNCHANGED <<srvStored, pendingMetrics>>
  /\ isSavingMetricsRef' = IF ok THEN FALSE ELSE isSavingMetricsRef
  /\ last' = IF ok THEN Other ELSE [op |-> "batchFailed"]
  /\ UNCHANGED elsewhere
  /\ UNCHANGED <<isSessionActive, isPaused, sessionDuration, liveData, allScores,
                 blinkCounter, eyeOpennessSum, dataPointCount, sinceStart,
                 currentSessionId, isStoppingRef, timerInterval, metricsInterval,
                 starts, stops, camera, srvSessions, created>>

\* the request of a periodic batch save settles: the callback resumes after
\* mutateAsync, in its try block (ok) or in its catch block, then finally
BatchDone(i, ok) ==
  /\ i \in DOMAIN batches
  /\ batches' = RemoveAt(batches, i)
  /\ IF ok
     THEN /\ srvStored' = StoreAll(srvStored, batches[i].metricsToSave)
          /\ pendingMetrics' =
               IF Len(pendingMetrics) >= batches[i].saveCount
               THEN slice(pendingMetrics, batches[i].saveCount)
               ELSE pendingMetrics
     ELSE UNCHANGED <<srvStored, pendingMetrics>>
  /\ isSavingMetricsRef' = FALSE
  /\ last' = IF ok THEN Other ELSE [op |-> "batchFailed"]
  /\ UNCHANGED elsewhere
  /\ UNCHANGED <<isSessionActive, isPaused, sessionDuration, liveData, allScores,
                 blinkCounter, eyeOpennessSum, dataPointCount, sinceStart,
                 currentSessionId, isStoppingRef, timerInterval, metricsInterval,
                 starts, stops, camera, srvSessions, created>>

\* -------------------------------------------------------- handleStopSession
\* a call of handleStopSession reads the React state of the render in which
\* Stop was clicked: pendingMetrics, sessionDuration, allScores, blinkCounter,
\* eyeOpennessSum and dataPointCount are the values of that render
StopClick ==
  /\ isSessionActive
  /\ Len(stops) < MaxStops
  /\ isStoppingRef' = TRUE
  /\ isSessionActive' = FALSE
  /\ isPaused' = FALSE
  /\ Effects(FALSE, FALSE)
  /\ stops' = Append(stops,
       [pc |-> "settle", waitIterations |-> 0, target |-> NoSession,
        sid |-> currentSessionId,
        pendingMetrics |-> pendingMetrics, sessionDuration |-> sessionDuration,
        allScores |-> allScores, blinkCounter |-> blinkCounter,
        eyeOpennessSum |-> eyeOpennessSum, dataPointCount |-> dataPointCount])
  /\ last' = Other
  /\ UNCHANGED elsewhere
  /\ UNCHANGED <<sessionDuration, liveData, allScores, blinkCounter,
                 eyeOpennessSum, dataPointCount, pendingMetrics,
                 sinceStart, currentSessionId, isSavingMetricsRef,
                 starts, batches, server, created>>

\* mutant: the loop has no iteration cap
WaitAgain_NoCap(w) == isSavingMetricsRef

\* the loop test of the wait for an in-flight batch save
WaitAgain(w) == isSavingMetricsRef /\ w < maxWaitIterations

\* the first 100 ms pause is over: enter the wait loop or pass it
StopSettle(i) ==
  /\ i \in DOMAIN stops
  /\ stops[i].pc = "settle"
  /\ stops' = [stops EXCEPT ![i].pc =
                 IF WaitAgain(stops[i].waitIterations) THEN "wait" ELSE "preflush"]
  /\ last' = Other
  /\ UNCHANGED elsewhere
  /\ UNCHANGED <<reactState, refs, starts, batches, camera, server, created>>

\* one 100 ms pause of the wait loop is over; waitIterations is not read
\* after the loop (but for the warning toast) and is dropped on leaving it
StopPoll(i) ==
  /\ i \in DOMAIN stops
  /\ stops[i].pc = "wait"
  /\ stops' = IF WaitAgain(stops[i].waitIterations + 1)
               THEN [stops EXCEPT ![i].waitIterations = @ + 1]
               ELSE [stops EXCEPT ![i].waitIterations = 0, ![i].pc = "preflush"]
  /\ last' = IF isSavingMetricsRef /\ ~WaitAgain(stops[i].waitIterations + 1)
             THEN [op |-> "waitTimedOut"] ELSE Other
  /\ UNCHANGED elsewhere
  /\ UNCHANGED <<reactState, refs, starts, batches, camera, server, created>>

\* the reset at the end of handleStopSession
ResetState ==
  /\ isStoppingRef' = FALSE
  /\ sessionDuration' = 0
  /\ allScores' = <<>>
  /\ blinkCounter' = 0
  /\ eyeOpennessSum' = 0
  /\ dataPointCount' = 0
  /\ pendingMetrics' = <<>>
  /\ currentSessionId' = NoSession

\* "Update session with final statistics", then "Reset state"; cleared tells
\* whether setPendingMetrics([]) ran just before
SessionUpdateOrReset(i, cleared) ==
  LET h == stops[i] IN
  IF h.sessionDuration > 0 /\ Len(h.allScores) > 0 /\ currentSessionId # NoSession
  THEN /\ stops' = [stops EXCEPT ![i].pc = "patch", ![i].target = currentSessionId]
       /\ pendingMetrics' = IF cleared THEN <<>> ELSE pendingMetrics
       /\ last' = Other
       /\ UNCHANGED <<isStoppingRef, sessionDuration, allScores, blinkCounter,
                      eyeOpennessSum, dataPointCount, currentSessionId>>
  ELSE /\ stops' = RemoveAt(stops, i)
       /\ ResetState
       /\ last' = [op |-> "reset", sid |-> h.sid]

\* "Save final batch": the second 100 ms pause is over
StopFinal(i) ==
  /\ i \in DOMAIN stops
  /\ stops[i].pc = "preflush"
  /\ IF Len(stops[i].pendingMetrics) > 0 /\ currentSessionId # NoSession
     THEN /\ stops' = [stops EXCEPT ![i].pc = "flush"]
          /\ last' = Other
          /\ UNCHANGED <<isStoppingRef, sessionDuration, allScores, blinkCounter,
                         eyeOpennessSum, dataPointCount, pendingMetrics,
                         currentSessionId>>
     ELSE SessionUpdateOrReset(i, FALSE)
  /\ UNCHANGED elsewhere
  /\ UNCHANGED <<isSessionActive, isPaused, liveData, sinceStart,
                 isSavingMetricsRef, timerInterval, metricsInterval, starts,
                 batches, camera, server, created>>

\* mutant: a failed final flush goes on to the session update and the reset
StopFlushDone_NoReturn(i, ok) ==
  /\ i \in DOMAIN stops
  /\ stops[i].pc = "flush"
  /\ IF ok
     THEN /\ srvStored' = StoreAll(srvStored, stops[i].pendingMetrics)
          /\ SessionUpdateOrReset(i, TRUE)
          /\ UNCHANGED <<isSessionActive, timerInterval, metricsInterval, camera>>
     ELSE /\ SessionUpdateOrReset(i, FALSE)
          /\ UNCHANGED <<srvStored, isSessionActive, timerInterval,
                         metricsInterval, camera>>
  /\ UNCHANGED elsewhere
  /\ UNCHANGED <<isPaused, liveData, sinceStart, isSavingMetricsRef,
                 starts, batches, srvSessions, created>>

\* the final POST /api/metrics settles
StopFlushDone(i, ok) ==
  /\ i \in DOMAIN stops
  /\ stops[i].pc = "flush"
  /\ IF ok
     THEN /\ srvStored' = StoreAll(srvStored, stops[i].pendingMetrics)
          /\ SessionUpdateOrReset(i, TRUE)
          /\ UNCHANGED <<isSessionActive, timerInterval, metricsInterval, camera>>
     ELSE /\ isStoppingRef' = FALSE
          /\ isSessionActive' = TRUE
          /\ Effects(TRUE, isPaused)
          /\ stops' = RemoveAt(stops, i)
          /\ last' = [op |-> "flushFailed"]
          /\ UNCHANGED <<srvStored, sessionDuration, allScores, blinkCounter,
                         eyeOpennessSum, dataPointCount, pendingMetrics,
                         currentSessionId>>
  /\ UNCHANGED elsewhere
  /\ UNCHANGED <<isPaused, liveData, sinceStart, isSavingMetricsRef,
                 starts, batches, srvSessions, created>>

\* MemStorage.updateSession behind PATCH /api/sessions/:id
updateSession(stored, id, data) ==
  IF id \in DOMAIN stored
  THEN [stored EXCEPT ![id] =
          [endTime |-> data.endTime, duration |-> data.duration]]
  ELSE stored

\* the PATCH of the session summary settles; both outcomes go on to the reset
StopPatchDone(i, ok) ==
  /\ i \in DOMAIN stops
  /\ stops[i].pc = "patch"
  /\ srvSessions' =
       IF ok
       THEN updateSession(srvSessions, stops[i].target,
              [endTime |-> DateSet, duration |-> stops[i].sessionDuration])
       ELSE srvSessions
  /\ stops' = RemoveAt(stops, i)
  /\ ResetState
  /\ last' = [op |-> "reset", sid |-> stops[i].sid]
  /\ UNCHANGED elsewhere
  /\ UNCHANGED <<isSessionActive, isPaused, liveData, sinceStart,
                 isSavingMetricsRef, timerInterval, metricsInterval, starts,
                 batches, camera, srvStored, created>>

\* ------------------------------------------------------ updateAttentionData
\* active and paused are isSessionActive and isPaused of the render whose
\* updateAttentionData the detection loop holds
\* mutant: the stopping flag is not looked at
updateAttentionData_NoStopCheck(data, active, paused) ==
  /\ liveData' = data
  /\ IF FALSE
     THEN UNCHANGED <<allScores, eyeOpennessSum, dataPointCount, blinkCounter,
                      pendingMetrics, created, srvStored>>
     ELSE IF active /\ ~paused /\ data.faceDetected /\ currentSessionId # NoSession
     THEN /\ allScores' = Append(allScores, data.attentionScore)
          /\ eyeOpennessSum' = eyeOpennessSum + data.eyeOpenness
          /\ dataPointCount' = dataPointCount + 1
          /\ blinkCounter' = IF data.eyeOpenness < BLINK_EYE_OPENNESS
                             THEN blinkCounter + 1 ELSE blinkCounter
          /\ pendingMetrics' = Append(pendingMetrics,
               [n |-> Len(created) + 1, sessionId |-> currentSessionId,
                attentionScore |-> data.attentionScore,
                eyeOpenness |-> data.eyeOpenness,
                blinkDetected |-> IF data.eyeOpenness < BLINK_EYE_OPENNESS
                                  THEN 1 ELSE 0])
          /\ created' = Append(created,
               [sessionId |-> currentSessionId,
                blinkDetected |-> IF data.eyeOpenness < BLINK_EYE_OPENNESS
                                  THEN 1 ELSE 0])
          /\ srvStored' = Append(srvStored, 0)
     ELSE UNCHANGED <<allScores, eyeOpennessSum, dataPointCount, blinkCounter,
                      pendingMetrics, created, srvStored>>

\* mutant: every recorded sample counts as a blink
updateAttentionData_EverySampleBlinks(data, active, paused) ==
  /\ liveData' = data
  /\ IF isStoppingRef
     THEN UNCHANGED <<allScores, eyeOpennessSum, dataPointCount, blinkCounter,
                      pendingMetrics, created, srvStored>>
     ELSE IF active /\ ~paused /\ data.faceDetected /\ currentSessionId # NoSession
     THEN /\ allScores' = Append(allScores, data.attentionScore)
          /\ eyeOpennessSum' = eyeOpennessSum + data.eyeOpenness
          /\ dataPointCount' = dataPointCount + 1
          /\ blinkCounter' = blinkCounter + 1
          /\ pendingMetrics' = Append(pendingMetrics,
               [n |-> Len(created) + 1, sessionId |-> currentSessionId,
                attentionScore |-> data.attentionScore,
                eyeOpenness |-> data.eyeOpenness,
                blinkDetected |-> IF data.eyeOpenness < BLINK_EYE_OPENNESS
                                  THEN 1 ELSE 0])
          /\ created' = Append(created,
               [sessionId |-> currentSessionId,
                blinkDetected |-> IF data.eyeOpenness < BLINK_EYE_OPENNESS
                                  THEN 1 ELSE 0])
          /\ srvStored' = Append(srvStored, 0)
     ELSE UNCHANGED <<allScores, eyeOpennessSum, dataPointCount, blinkCounter,
                      pendingMetrics, created, srvStored>>

\* updateAttentionData of a render
updateAttentionData(data, active, paused) ==
  /\ liveData' = data
  /\ IF isStoppingRef
     THEN UNCHANGED <<allScores, eyeOpennessSum, dataPointCount, blinkCounter,
                      pendingMetrics, created, srvStored>>
     ELSE IF active /\ ~paused /\ data.faceDetected /\ currentSessionId # NoSession
     THEN /\ allScores' = Append(allScores, data.attentionScore)
          /\ eyeOpennessSum' = eyeOpennessSum + data.eyeOpenness
          /\ dataPointCount' = dataPointCount + 1
          /\ blinkCounter' = IF data.eyeOpenness < BLINK_EYE_OPENNESS
                             THEN blinkCounter + 1 ELSE blinkCounter
          /\ pendingMetrics' = Append(pendingMetrics,
               [n |-> Len(created) + 1, sessionId |-> currentSessionId,
                attentionScore |-> data.attentionScore,
                eyeOpenness |-> data.eyeOpenness,
                blinkDetected |-> IF data.eyeOpenness < BLINK_EYE_OPENNESS
                                  THEN 1 ELSE 0])
          /\ created' = Append(created,
               [sessionId |-> currentSessionId,
                blinkDetected |-> IF data.eyeOpenness < BLINK_EYE_OPENNESS
                                  THEN 1 ELSE 0])
          /\ srvStored' = Append(srvStored, 0)
     ELSE UNCHANGED <<allScores, eyeOpennessSum, dataPointCount, blinkCounter,
                      pendingMetrics, created, srvStored>>

\* detectFaces hands a frame to onDataUpdate; the loop was started by the
\* camera effect of a render with isActive, so its updateAttentionData is the
\* one of a render with isSessionActive and not isPaused
onDataUpdate(data) ==
  /\ cameraOn \/ lateFrame
  /\ Len(created) < MaxSamples \/ isStoppingRef \/ ~data.faceDetected
        \/ currentSessionId = NoSession
  /\ updateAttentionData(data, TRUE, FALSE)
  /\ lateFrame' = FALSE
  /\ last' = IF isStoppingRef THEN [op |-> "sampleWhileStopping"] ELSE Other
  /\ UNCHANGED elsewhere
  /\ UNCHANGED <<isSessionActive, isPaused, sessionDuration, refs, calls,
                 cameraOn, srvSessions>>

Next ==
  \/ StartClick
  \/ \E i \in DOMAIN starts, ok \in BOOLEAN : StartMedia(i, ok)
  \/ \E i \in DOMAIN starts, ok \in BOOLEAN : StartPostDone(i, ok)
  \/ handlePauseResume
  \/ \E t \in Clock : TimerTick(t)
  \/ MetricsTick
  \/ \E i \in DOMAIN batches, ok \in BOOLEAN : BatchDone(i, ok)
  \/ StopClick
  \/ \E i \in DOMAIN stops : StopSettle(i)
  \/ \E i \in DOMAIN stops : StopPoll(i)
  \/ \E i \in DOMAIN stops : StopFinal(i)
  \/ \E i \in DOMAIN stops, ok \in BOOLEAN : StopFlushDone(i, ok)
  \/ \E i \in DOMAIN stops, ok \in BOOLEAN : StopPatchDone(i, ok)
  \/ \E data \in Frames : onDataUpdate(data)

Spec == Init /\ [][Next]_vars

\* ------------------------------------------- the detection loop on its own
\* detectFaces finds a face in the frame it scores at time t
detectFaces(t, avgEAR, gazeOffsetX, gazeOffsetY) ==
  LET blink == Less(avgEAR, EAR_THRESHOLD) /\ t - lastBlinkTime > 300
      counted == IF blink THEN blinkCount + 1 ELSE blinkCount
      restart == t - blinkWindowStart > 10000
      windowStart == IF restart THEN t ELSE blinkWindowStart
      count == IF restart THEN 0 ELSE counted
      blinkRate == BlinkRate(count, t - windowStart)
      gaze == gazeDirection(gazeOffsetX, gazeOffsetY)
      headYaw == headAngle(gazeOffsetX)
      headPitch == headAngle(gazeOffsetY)
  IN  /\ t >= now
      /\ now' = t
      /\ lastBlinkTime' = IF blink THEN t ELSE lastBlinkTime
      /\ blinkWindowStart' = windowStart
      /\ blinkCount' = count
      /\ frame' = [avgEAR |-> avgEAR, gazeOffsetX |-> gazeOffsetX,
                   gazeOffsetY |-> gazeOffsetY, blinkRate |-> blinkRate]
      /\ emitted' =
           [attentionScore |->
              attentionScore(avgEAR, gaze, headYaw, headPitch, blinkRate),
            eyeOpenness |-> avgEAR, blinkRate |-> Round(blinkRate),
            gazeDirection |-> gaze, headYaw |-> headYaw,
            headPitch |-> headPitch, faceDetected |-> TRUE]
      /\ UNCHANGED <<page, twin, storage, alert, stopwatch>>

\* detectFaces finds no face in the frame
detectNoFace(t) ==
  /\ t >= now
  /\ now' = t
  /\ frame' = NoFrame
  /\ emitted' = NoFaceData
  /\ UNCHANGED <<lastBlinkTime, blinkCount, blinkWindowStart>>
  /\ UNCHANGED <<page, twin, storage, alert, stopwatch>>

NextScore ==
  \/ \E t \in FrameTimes, avgEAR \in EARs, x \in Offsets, y \in Offsets :
        detectFaces(t, avgEAR, x, y)
  \/ \E t \in FrameTimes : detectNoFace(t)

SpecScore == Init /\ [][NextScore]_vars

\* --------------------------------------- two detection loops side by side
\* frames and times handed to the two loops
TwinEARs == {19, 25}
TwinOffsets == {0, 16}
TwinTimes == {0, 301, 2500, 10001}

\* detectFaces of a CameraFeed whose refs are d finds a face in the frame
\* it scores at time t: the refs, the frame and the data afterwards
Scored(d, t, avgEAR, gazeOffsetX, gazeOffsetY) ==
  LET blink == Less(avgEAR, EAR_THRESHOLD) /\ t - d.lastBlinkTime > 300
      counted == IF blink THEN d.blinkCount + 1 ELSE d.blinkCount
      restart == t - d.blinkWindowStart > 10000
      windowStart == IF restart THEN t ELSE d.blinkWindowStart
      count == IF restart THEN 0 ELSE counted
      blinkRate == BlinkRate(count, t - windowStart)
      gaze == gazeDirection(gazeOffsetX, gazeOffsetY)
      headYaw == headAngle(gazeOffsetX)
      headPitch == headAngle(gazeOffsetY)
  IN  [lastBlinkTime |-> IF blink THEN t ELSE d.lastBlinkTime,
       blinkCount |-> count,
       blinkWindowStart |-> windowStart,
       now |-> t,
       frame |-> [avgEAR |-> avgEAR, gazeOffsetX |-> gazeOffsetX,
                  gazeOffsetY |-> gazeOffsetY, blinkRate |-> blinkRate],
       emitted |->
         [attentionScore |->
            attentionScore(avgEAR, gaze, headYaw, headPitch, blinkRate),
          eyeOpenness |-> avgEAR, blinkRate |-> Round(blinkRate),
          gazeDirection |-> gaze, headYaw |-> headYaw,
          headPitch |-> headPitch, faceDetected |-> TRUE]]

\* the second CameraFeed scores a frame with a face
twinDetectFaces(t, avgEAR, gazeOffsetX, gazeOffsetY) ==
  /\ t >= twin.now
  /\ twin' = Scored(twin, t, avgEAR, gazeOffsetX, gazeOffsetY)
  /\ UNCHANGED <<page, detector, storage, alert, stopwatch>>

NextTwin ==
  \/ \E t \in TwinTimes, avgEAR \in TwinEARs, x \in TwinOffsets,
        y \in TwinOffsets : detectFaces(t, avgEAR, x, y)
  \/ \E t \in TwinTimes, avgEAR \in TwinEARs, x \in TwinOffsets,
        y \in TwinOffsets : twinDetectFaces(t, avgEAR, x, y)

SpecTwin == Init /\ [][NextTwin]_vars

\* ---------------------------------------------- the REST API on MemStorage
\* a value that fails its field of the insert schemas
Invalid == 0 - 2

Ids == 1..MaxUuids

\* request bodies of POST /api/sessions; id is not a field of the schema
SessionBodies ==
  [startTime : {DateSet, Invalid}, endTime : {NULL}, duration : {NULL},
   averageAttention : {NULL, 40, 90}, id : {NULL, 1}]

\* insertSessionSchema.parse accepts the body
ValidSession(body) == body.startTime # Invalid

\* insertSessionSchema.parse: the fields of the schema, id left out
ParsedSession(body) ==
  [startTime |-> body.startTime, endTime |-> body.endTime,
   duration |-> body.duration, averageAttention |-> body.averageAttention]

\* mutant: the id is the number of sessions stored, plus one
createSession_CountAsId(stored, id, insertSession) ==
  LET n == Cardinality(DOMAIN stored) + 1 IN
  [k \in DOMAIN stored \cup {n} |->
     IF k = n
     THEN [id |-> n, startTime |-> insertSession.startTime,
           endTime |-> insertSession.endTime,
           duration |-> insertSession.duration,
           averageAttention |-> insertSession.averageAttention]
     ELSE stored[k]]

\* MemStorage.createSession with id the UUID drawn: this.sessions afterwards
createSession(stored, id, insertSession) ==
  [k \in DOMAIN stored \cup {id} |->
     IF k = id
     THEN [id |-> id, startTime |-> insertSession.startTime,
           endTime |-> insertSession.endTime,
           duration |-> insertSession.duration,
           averageAttention |-> insertSession.averageAttention]
     ELSE stored[k]]

\* POST /api/sessions
PostSession(body) ==
  /\ IF ValidSession(body)
     THEN /\ uuids < MaxUuids
          /\ uuids' = uuids + 1
          /\ sessions' = createSession(sessions, uuids + 1, ParsedSession(body))
          /\ response' = [req |-> "POST /api/sessions", status |-> 200,
                          id |-> uuids + 1]
     ELSE /\ response' = [req |-> "POST /api/sessions", status |-> 400]
          /\ UNCHANGED <<sessions, uuids>>
  /\ UNCHANGED attentionMetrics
  /\ UNCHANGED <<page, detector, twin, alert, stopwatch>>

\* the methods that class MemStorage defines
MemStorageMethods ==
  {"createSession", "getSession", "getAllSessions", "updateSession",
   "deleteSession", "createAttentionMetric", "getMetricsBySessionId",
   "getSessionStats"}

\* GET /api/sessions/:id calls storage.getSessionById: a call of a method
\* the storage object does not have throws, and the route answers 500
GetSession(id) ==
  /\ response' =
       IF "getSessionById" \notin MemStorageMethods
       THEN [req |-> "GET /api/sessions/:id", status |-> 500]
       ELSE IF id \in DOMAIN sessions
       THEN [req |-> "GET /api/sessions/:id", status |-> 200,
             body |-> sessions[id]]
       ELSE [req |-> "GET /api/sessions/:id", status |-> 404]
  /\ UNCHANGED <<sessions, attentionMetrics, uuids>>
  /\ UNCHANGED <<page, detector, twin, alert, stopwatch>>

\* request bodies of PATCH /api/sessions/:id (the body is not validated)
PatchBodies ==
  {[averageAttention |-> 90], [averageAttention |-> NULL],
   [endTime |-> DateSet, duration |-> 5, averageAttention |-> 40],
   [id |-> 1]}

\* { ...session, ...data }
Spread(session, data) ==
  [f \in DOMAIN session \cup DOMAIN data |->
     IF f \in DOMAIN data THEN data[f] ELSE session[f]]

\* PATCH /api/sessions/:id on MemStorage.updateSession
PatchSession(id, body) ==
  /\ IF id \in DOMAIN sessions
     THEN /\ sessions' = [sessions EXCEPT ![id] = Spread(sessions[id], body)]
          /\ response' = [req |-> "PATCH /api/sessions/:id", status |-> 200]
     ELSE /\ response' = [req |-> "PATCH /api/sessions/:id", status |-> 404]
          /\ UNCHANGED sessions
  /\ UNCHANGED <<attentionMetrics, uuids>>
  /\ UNCHANGED <<page, detector, twin, alert, stopwatch>>

\* mutant: the metrics of the session are left in place
deleteSession_NoCascade(id) ==
  /\ sessions' = [k \in DOMAIN sessions \ {id} |-> sessions[k]]
  /\ UNCHANGED attentionMetrics

\* mutant: the metrics with that sessionId go whether or not a session went
deleteSession_AlwaysCascade(id) ==
  /\ sessions' = [k \in DOMAIN sessions \ {id} |-> sessions[k]]
  /\ attentionMetrics' =
       [k \in {m \in DOMAIN attentionMetrics :
                  attentionMetrics[m].sessionId # id}
           |-> attentionMetrics[k]]

\* MemStorage.deleteSession
deleteSession(id) ==
  /\ sessions' = [k \in DOMAIN sessions \ {id} |-> sessions[k]]
  /\ attentionMetrics' =
       IF id \in DOMAIN sessions
       THEN [k \in {m \in DOMAIN attentionMetrics :
                      attentionMetrics[m].sessionId # id}
               |-> attentionMetrics[k]]
       ELSE attentionMetrics

\* DELETE /api/sessions/:id
DeleteSession(id) ==
  /\ deleteSession(id)
  /\ response' = [req |-> "DELETE /api/sessions/:id", status |-> 200,
                  existed |-> id \in DOMAIN sessions,
                  metricsDeleted |->
                    Cardinality(DOMAIN attentionMetrics)
                      - Cardinality(DOMAIN attentionMetrics')]
  /\ UNCHANGED uuids
  /\ UNCHANGED <<page, detector, twin, alert, stopwatch>>

\* request bodies of POST /api/metrics: one metric, or an array of them
MetricBodies == [sessionId : Ids, attentionScore : {80}, blinkDetected : {0, 2}]
Batches == UNION {[1..n -> MetricBodies] : n \in 1..MaxBatch}

\* insertAttentionMetricSchema.parse accepts the metric: blinkDetected has
\* to be an integer from 0 to 1
ValidMetric(metric) == metric.blinkDetected \in 0..1

\* MemStorage.createAttentionMetric with id the UUID drawn
createAttentionMetric(stored, id, insertMetric) ==
  [k \in DOMAIN stored \cup {id} |->
     IF k = id
     THEN [id |-> id, sessionId |-> insertMetric.sessionId,
           attentionScore |-> insertMetric.attentionScore,
           blinkDetected |-> insertMetric.blinkDetected]
     ELSE stored[k]]

\* metrics.map(metric => ...): each metric in turn is parsed and handed to
\* createAttentionMetric, which stores it before it returns its promise; a
\* parse that throws ends the map. n counts the UUIDs drawn
RECURSIVE MapMetrics(_, _, _)
MapMetrics(stored, n, batch) ==
  IF batch = <<>> THEN [metrics |-> stored, uuids |-> n, ok |-> TRUE]
  ELSE IF ~ValidMetric(Head(batch))
  THEN [metrics |-> stored, uuids |-> n, ok |-> FALSE]
  ELSE MapMetrics(createAttentionMetric(stored, n + 1, Head(batch)),
                  n + 1, Tail(batch))

\* POST /api/metrics
PostMetrics(batch) ==
  LET done == MapMetrics(attentionMetrics, uuids, batch) IN
  /\ uuids + Len(batch) <= MaxUuids
  /\ attentionMetrics' = done.metrics
  /\ uuids' = done.uuids
  /\ response' = [req |-> "POST /api/metrics",
                  status |-> IF done.ok THEN 200 ELSE 400,
                  batch |-> batch]
  /\ UNCHANGED sessions
  /\ UNCHANGED <<page, detector, twin, alert, stopwatch>>

\* sum of averageAttention over the sessions with the ids in S
RECURSIVE SumAttention(_, _)
SumAttention(stored, S) ==
  IF S = {} THEN 0
  ELSE LET k == CHOOSE x \in S : TRUE
       IN  stored[k].averageAttention + SumAttention(stored, S \ {k})

\* MemStorage.getSessionStats: totalSessions, and averageAttention as the
\* fraction sum / count (0 / 1 when no session has one)
getSessionStats ==
  LET withAttention ==
        {k \in DOMAIN sessions : sessions[k].averageAttention # NULL}
  IN  [totalSessions |-> Cardinality(DOMAIN sessions),
       averageAttention |->
         IF withAttention # {}
         THEN [sum |-> SumAttention(sessions, withAttention),
               count |-> Cardinality(withAttention)]
         ELSE [sum |-> 0, count |-> 1]]

\* GET /api/stats calls storage.getStats: a call of a method the storage
\* object does not have throws, and the route answers 500
GetStats ==
  /\ response' =
       IF "getStats" \notin MemStorageMethods
       THEN [req |-> "GET /api/stats", status |-> 500]
       ELSE [req |-> "GET /api/stats", status |-> 200,
             body |-> getSessionStats]
  /\ UNCHANGED <<sessions, attentionMetrics, uuids>>
  /\ UNCHANGED <<page, detector, twin, alert, stopwatch>>

NextServer ==
  \/ \E body \in SessionBodies : PostSession(body)
  \/ \E id \in Ids : GetSession(id)
  \/ \E id \in Ids, body \in PatchBodies : PatchSession(id, body)
  \/ \E id \in Ids : DeleteSession(id)
  \/ \E batch \in Batches : PostMetrics(batch)
  \/ GetStats

SpecServer == Init /\ [][NextServer]_vars

\* ------------------------------------------------ low-attention alert effect
threshold == 50
ALERT_COOLDOWN == 10000

\* attention scores of the frames that reach the effect
AlertScores == {0, 49, 50, 80}
AlertData ==
  [attentionScore : AlertScores, faceDetected : {TRUE}]
    \cup {[attentionScore |-> NoFaceData.attentionScore,
           faceDetected |-> NoFaceData.faceDetected]}

\* the last two entries of a log
LastTwo(log) ==
  IF Len(log) <= 2 THEN log ELSE SubSeq(log, Len(log) - 1, Len(log))

\* the effect without the 10 s cooldown of vibration and notification
lowAttentionEffect_NoCooldown(a) ==
  IF ~a.isSessionActive \/ a.isPaused THEN a
  ELSE IF ~a.faceDetected THEN [a EXCEPT !.lastBelowThresholdRef = FALSE]
  ELSE IF a.attentionScore < threshold
  THEN [a EXCEPT !.lastAlertTimeRef = a.now,
                 !.vibrations = LastTwo(Append(@, a.now)),
                 !.vibrated = TRUE,
                 !.lastBelowThresholdRef = TRUE,
                 !.smsSent = ~a.lastBelowThresholdRef]
  ELSE [a EXCEPT !.lastBelowThresholdRef = FALSE]

\* the body of the effect, run with the state of record a at Date.now() =
\* a.now: vibration and notification at most every 10 s, one SMS request when
\* lastBelowThresholdRef is clear
lowAttentionEffect(a) ==
  IF ~a.isSessionActive \/ a.isPaused THEN a
  ELSE IF ~a.faceDetected THEN [a EXCEPT !.lastBelowThresholdRef = FALSE]
  ELSE IF a.attentionScore < threshold
  THEN LET cooled == a.now - a.lastAlertTimeRef >= ALERT_COOLDOWN
       IN  [a EXCEPT !.lastAlertTimeRef = IF cooled THEN a.now ELSE @,
                     !.vibrations =
                       IF cooled THEN LastTwo(Append(@, a.now)) ELSE @,
                     !.vibrated = cooled,
                     !.lastBelowThresholdRef = TRUE,
                     !.smsSent = ~a.lastBelowThresholdRef]
  ELSE [a EXCEPT !.lastBelowThresholdRef = FALSE]

\* the dependency list of the effect
alertDeps(a) ==
  <<a.attentionScore, a.faceDetected, a.isSessionActive, a.isPaused>>

\* a render at time t with the state of record b, after one with the state of
\* alert: the effect runs when one of its dependencies has changed
alertRender(b, t) ==
  LET a == [b EXCEPT !.now = t, !.vibrated = FALSE, !.smsSent = FALSE]
  IN  alert' = IF alertDeps(a) # alertDeps(alert)
               THEN lowAttentionEffect(a) ELSE a

\* the CameraFeed effect on the record (cf. CameraEffect)
alertCamera(b) ==
  IF b.isSessionActive /\ ~b.isPaused
  THEN [b EXCEPT !.cameraOn = TRUE, !.lateFrame = FALSE]
  ELSE [b EXCEPT !.cameraOn = FALSE,
                 !.lateFrame = (b.cameraOn \/ b.lateFrame)]

\* handleStartSession, once the session is created: clears
\* lastBelowThresholdRef, sets isSessionActive and clears isPaused
alertOnStart(t) ==
  /\ ~alert.isSessionActive
  /\ alertRender(alertCamera([alert EXCEPT !.lastBelowThresholdRef = FALSE,
                                           !.isSessionActive = TRUE,
                                           !.isPaused = FALSE]), t)
  /\ UNCHANGED <<page, detector, twin, storage, stopwatch>>

\* handlePauseResume
alertOnPauseResume(t) ==
  /\ alert.isSessionActive
  /\ alertRender(alertCamera([alert EXCEPT !.isPaused = ~alert.isPaused]), t)
  /\ UNCHANGED <<page, detector, twin, storage, stopwatch>>

\* handleStopSession up to its first await: clears isSessionActive and
\* isPaused; its trailing reset is pending
alertOnStop(t) ==
  /\ alert.isSessionActive
  /\ alert.resets < MaxStops
  /\ alertRender(alertCamera([alert EXCEPT !.isSessionActive = FALSE,
                                           !.isPaused = FALSE,
                                           !.resets = @ + 1]), t)
  /\ UNCHANGED <<page, detector, twin, storage, stopwatch>>

\* the trailing reset of handleStopSession clears lastBelowThresholdRef
alertOnReset(t) ==
  /\ alert.resets > 0
  /\ alertRender([alert EXCEPT !.lastBelowThresholdRef = FALSE,
                               !.resets = @ - 1], t)
  /\ UNCHANGED <<page, detector, twin, storage, stopwatch>>

\* updateAttentionData: setLiveData(data), whatever the session's state
alertOnData(t, data) ==
  /\ alert.cameraOn \/ alert.lateFrame
  /\ alertRender([alert EXCEPT !.attentionScore = data.attentionScore,
                               !.faceDetected = data.faceDetected,
                               !.lateFrame = FALSE], t)
  /\ UNCHANGED <<page, detector, twin, storage, stopwatch>>

\* the readings of Date.now() from the last one on
AlertTimes == {u \in AlertClock : u >= alert.now}

NextAlert ==
  \/ \E t \in AlertTimes : alertOnStart(t)
  \/ \E t \in AlertTimes : alertOnPauseResume(t)
  \/ \E t \in AlertTimes : alertOnStop(t)
  \/ \E t \in AlertTimes : alertOnReset(t)
  \/ \E t \in AlertTimes, data \in AlertData : alertOnData(t, data)

SpecAlert == Init /\ [][NextAlert]_vars

\* ----------------------------------------------- the session timer on a clock
\* readings of Date.now() (ms since the page was mounted)
WallClock == {0, 500, 1000, 1500, 2000, 2500, 3000}

\* time passes; unpaused adds up the time of the session in which isPaused
\* was false
swAdvance(t) ==
  /\ t > stopwatch.now
  /\ stopwatch' =
       [stopwatch EXCEPT
          !.now = t,
          !.unpaused = IF stopwatch.isPaused THEN @ ELSE @ + (t - stopwatch.now)]
  /\ UNCHANGED <<page, detector, twin, storage, alert>>

\* handleStartSession: sessionStartTime.current = Date.now(), then the
\* session is active and not paused, with duration 0
swStart ==
  /\ ~stopwatch.isSessionActive
  /\ stopwatch.session < MaxSessions
  /\ stopwatch' =
       [stopwatch EXCEPT !.sessionStartTime = stopwatch.now,
                         !.isSessionActive = TRUE,
                         !.isPaused = FALSE,
                         !.sessionDuration = 0,
                         !.session = @ + 1,
                         !.unpaused = 0]
  /\ UNCHANGED <<page, detector, twin, storage, alert>>

\* handlePauseResume: on Resume sessionStartTime.current =
\* Date.now() - sessionDuration * 1000
swPauseResume ==
  /\ stopwatch.isSessionActive
  /\ stopwatch' =
       [stopwatch EXCEPT
          !.sessionStartTime =
             IF stopwatch.isPaused
             THEN stopwatch.now - stopwatch.sessionDuration * 1000 ELSE @,
          !.isPaused = ~stopwatch.isPaused]
  /\ UNCHANGED <<page, detector, twin, storage, alert>>

\* the 1 s interval fires:
\* setSessionDuration(Math.floor((Date.now() - sessionStartTime.current) / 1000))
swTick ==
  /\ SessionTimerEffect(stopwatch.isSessionActive, stopwatch.isPaused)
  /\ stopwatch' =
       [stopwatch EXCEPT
          !.sessionDuration =
             (stopwatch.now - stopwatch.sessionStartTime) \div 1000]
  /\ UNCHANGED <<page, detector, twin, storage, alert>>

\* handleStopSession up to its first await: clears isSessionActive and
\* isPaused and leaves sessionStartTime as it is
swStop ==
  /\ stopwatch.isSessionActive
  /\ stopwatch.stopping < MaxStops
  /\ stopwatch' = [stopwatch EXCEPT !.isSessionActive = FALSE,
                                    !.isPaused = FALSE,
                                    !.stopping = @ + 1]
  /\ UNCHANGED <<page, detector, twin, storage, alert>>

\* the final flush of a Stop fails: setIsSessionActive(true) and return
swStopFlushFailed ==
  /\ stopwatch.stopping > 0
  /\ stopwatch' = [stopwatch EXCEPT !.isSessionActive = TRUE,
                                    !.stopping = @ - 1]
  /\ UNCHANGED <<page, detector, twin, storage, alert>>

\* a Stop reaches its reset: setSessionDuration(0)
swStopReset ==
  /\ stopwatch.stopping > 0
  /\ stopwatch' = [stopwatch EXCEPT !.sessionDuration = 0,
                                    !.stopping = @ - 1]
  /\ UNCHANGED <<page, detector, twin, storage, alert>>

NextTimer ==
  \/ \E t \in WallClock : swAdvance(t)
  \/ swStart
  \/ swPauseResume
  \/ swTick
  \/ swStop
  \/ swStopFlushFailed
  \/ swStopReset

SpecTimer == Init /\ [][NextTimer]_vars



\* =================================================================== claims
\* metric save requests (POST /api/metrics) in flight
InFlightSaves ==
  Len(batches) + Cardinality({i \in DOMAIN stops : stops[i].pc = "flush"})

\* C1 (as stated): at any moment at most one metrics save request is in
\* flight, the final flush of Stop included.
C1_AtMostOneSaveInFlight == InFlightSaves <= 1

\* C1 (amended): at any moment at most one periodic batch save request is in
\* flight; the final flush of Stop is not held back by the flag beyond the
\* bounded wait and may be in flight together with it.
C1_AtMostOnePeriodicSave == Len(batches) <= 1

C1_Witness ==
  /\ Len(batches) = 1
  /\ \E i \in DOMAIN stops : stops[i].pc = "flush"

\* C2: when handleStopSession reaches its reset, every sample recorded in the
\* session that was stopped is stored on the server and the queue is empty.
C2_DrainOnStop ==
  last.op = "reset" =>
    /\ pendingMetrics = <<>>
    /\ \A n \in DOMAIN created : created[n].sessionId = last.sid => srvStored[n] >= 1

\* C3: no recorded sample is stored on the server more than once.
C3_NoDuplicateStore == \A n \in DOMAIN srvStored : srvStored[n] <= 1

\* C4: the wait loop of Stop runs at most maxWaitIterations pauses: the count
\* never passes the cap, every pause that ends either leaves the loop or
\* counts one more, and the pause that reaches the cap leaves the loop for
\* the final flush whatever the in-progress flag says.
C4_BoundedWait ==
  /\ [](\A i \in DOMAIN stops : stops[i].waitIterations < maxWaitIterations)
  /\ [][\A i \in DOMAIN stops : StopPoll(i) =>
          /\ stops[i].waitIterations + 1 = maxWaitIterations
               => stops'[i].pc = "preflush"
          /\ stops'[i].pc = "wait"
               => stops'[i].waitIterations = stops[i].waitIterations + 1]_vars

C4_Witness ==
  /\ last.op = "waitTimedOut"
  /\ isSavingMetricsRef
  /\ \E i \in DOMAIN stops : stops[i].pc = "preflush"

\* C5: a batch save starts only when no save is marked in progress, the
\* queue is non-empty and a session id is set; a tick that finds a save in
\* progress starts no request and changes neither the queue nor the flag.
C5_TickGuard ==
  [][/\ Len(batches') > Len(batches) =>
          /\ ~isSavingMetricsRef
          /\ Len(pendingMetrics) > 0
          /\ currentSessionId # NoSession
     /\ (MetricsTick /\ isSavingMetricsRef) =>
          UNCHANGED <<batches, pendingMetrics, isSavingMetricsRef, srvStored>>]_vars

C5_Witness ==
  /\ last.op = "tickSkipped"
  /\ Len(batches) = 1
  /\ isSavingMetricsRef

\* C6: both intervals run exactly while the session is active and not
\* paused, and no batch save starts while it is paused or not active.
C6_TimersFollowSession ==
  /\ [](metricsInterval <=> (isSessionActive /\ ~isPaused))
  /\ [](timerInterval <=> (isSessionActive /\ ~isPaused))
  /\ [][Len(batches') > Len(batches) => isSessionActive /\ ~isPaused]_vars

C6_Witness ==
  /\ isSessionActive /\ isPaused
  /\ ~metricsInterval /\ ~timerInterval
  /\ pendingMetrics # <<>> /\ currentSessionId # NoSession
  /\ ~isSavingMetricsRef

\* C7: a failed final flush ends Stop there: no session summary is sent, the
\* queue, the scores, the counters and the session id stay as they are, the
\* stopping flag is cleared and the session is active again.
C7_FlushFailureKeepsState ==
  [][\A i \in DOMAIN stops : StopFlushDone(i, FALSE) =>
        /\ UNCHANGED <<pendingMetrics, allScores, blinkCounter, dataPointCount,
                       eyeOpennessSum, sessionDuration, currentSessionId,
                       server>>
        /\ Len(stops') = Len(stops) - 1
        /\ \A j \in DOMAIN stops' : stops'[j].pc # "patch" \/
              \E k \in DOMAIN stops : stops[k] = stops'[j]
        /\ ~isStoppingRef'
        /\ isSessionActive']_vars

C7_Witness ==
  /\ last.op = "flushFailed"
  /\ pendingMetrics # <<>>
  /\ isSessionActive /\ ~isStoppingRef
  /\ currentSessionId # NoSession

\* C8: while the stopping flag is set, a frame from the camera changes the
\* live display data only.
C8_StoppingFreezesCapture ==
  [][\A data \in Frames :
        (isStoppingRef /\ onDataUpdate(data)) =>
          /\ liveData' = data
          /\ UNCHANGED <<pendingMetrics, allScores, eyeOpennessSum,
                         dataPointCount, blinkCounter, created>>]_vars

C8_Witness ==
  /\ last.op = "sampleWhileStopping"
  /\ liveData.faceDetected
  /\ currentSessionId # NoSession

\* C9: every attentionScore the detection loop hands to onDataUpdate lies in
\* 0..100, whatever the eye-aspect-ratio, the gaze offsets and the blink
\* history of the frame.
C9_ScoreInRange == emitted.attentionScore \in 0..100

C9_Witness ==
  /\ emitted.faceDetected
  /\ emitted.attentionScore = 15
  /\ blinkCount > 0

\* C10: for a frame with a face the score is 100 minus 20 if the average
\* eye-aspect-ratio is below 0.25, minus 30 if the gaze is not center, minus
\* 25 if |headYaw| > 20 or |headPitch| > 20, minus 10 if the blink rate is
\* above 30 per minute, clamped to 0..100; the gaze is left or right when
\* |offsetX| > 15, otherwise up or down when |offsetY| > 15, otherwise center.
C10_ScoreFormula ==
  emitted.faceDetected =>
    LET penalty ==
          (IF frame.avgEAR # NaN /\ frame.avgEAR < 25 THEN 20 ELSE 0)
          + (IF emitted.gazeDirection # "center" THEN 30 ELSE 0)
          + (IF Abs(emitted.headYaw) > 40 \/ Abs(emitted.headPitch) > 40
             THEN 25 ELSE 0)
          + (IF RateAbove(frame.blinkRate, 30) THEN 10 ELSE 0)
    IN  /\ emitted.attentionScore = Max(0, Min(100, 100 - penalty))
        /\ IF Abs(frame.gazeOffsetX) > 15
           THEN emitted.gazeDirection \in {"left", "right"}
           ELSE IF Abs(frame.gazeOffsetY) > 15
           THEN emitted.gazeDirection \in {"up", "down"}
           ELSE emitted.gazeDirection = "center"

C10_Witness ==
  /\ emitted.faceDetected
  /\ frame.avgEAR = 24
  /\ frame.gazeOffsetX = 15
  /\ emitted.gazeDirection = "up"
  /\ RateAbove(frame.blinkRate, 30)
  /\ emitted.attentionScore = 40

\* both loops have scored a frame with a face, from the same landmarks
SameFrame ==
  /\ emitted.faceDetected
  /\ twin.emitted.faceDetected
  /\ frame.avgEAR = twin.frame.avgEAR
  /\ frame.gazeOffsetX = twin.frame.gazeOffsetX
  /\ frame.gazeOffsetY = twin.frame.gazeOffsetY

\* C11 (as stated): two executions that present the same landmark
\* coordinates for a frame emit the same attentionScore, whatever frames and
\* timestamps preceded it.
C11_ScoreFromFrameAlone ==
  SameFrame => emitted.attentionScore = twin.emitted.attentionScore

\* C11 (amended): two executions that present the same landmark coordinates
\* for a frame emit the same attentionScore when their blink rates, which
\* come from the blinks counted in the current 10 s window and the time since
\* it began, are on the same side of 30 per minute.
C11_ScoreFromFrameAndBlinkRate ==
  (/\ SameFrame
   /\ (frame.blinkRate.num > 30 * frame.blinkRate.den)
        = (twin.frame.blinkRate.num > 30 * twin.frame.blinkRate.den))
    => emitted.attentionScore = twin.emitted.attentionScore

C11_Witness ==
  /\ SameFrame
  /\ frame.avgEAR = 25
  /\ blinkCount = 1 /\ twin.blinkCount = 0
  /\ now = 2500 /\ twin.now = 301
  /\ emitted.attentionScore = twin.emitted.attentionScore

\* C12: POST /api/sessions with a body that fails the session schema answers
\* 400 and creates no session; with a valid body it stores exactly one new
\* session, under an id that no stored session had, and leaves every other
\* session and every metric as they were.
C12_PostSession ==
  [][\A body \in SessionBodies : PostSession(body) =>
       IF body.startTime = Invalid
       THEN /\ response'.status = 400
            /\ UNCHANGED <<sessions, attentionMetrics>>
       ELSE /\ response'.status = 200
            /\ \E id \in DOMAIN sessions' \ DOMAIN sessions :
                 /\ DOMAIN sessions' = DOMAIN sessions \cup {id}
                 /\ sessions'[id].id = id
                 /\ sessions'[id].startTime = body.startTime
                 /\ sessions'[id].averageAttention = body.averageAttention
            /\ \A k \in DOMAIN sessions : sessions'[k] = sessions[k]
            /\ UNCHANGED attentionMetrics]_vars

C12_Witness ==
  /\ response.req = "POST /api/sessions"
  /\ response.status = 200
  /\ response.id = 3
  /\ DOMAIN sessions = {1, 3}
  /\ DOMAIN attentionMetrics = {2}

\* C13: POST /api/metrics is all-or-nothing: when an element of the batch
\* fails validation the answer is 400 and none of its metrics is stored;
\* when all are valid the answer is 200 and each of them is stored.
C13_MetricsAllOrNothing ==
  [][\A batch \in Batches : PostMetrics(batch) =>
       IF \E i \in DOMAIN batch : batch[i].blinkDetected \notin {0, 1}
       THEN /\ response'.status = 400
            /\ UNCHANGED <<sessions, attentionMetrics>>
       ELSE /\ response'.status = 200
            /\ UNCHANGED sessions
            /\ \A k \in DOMAIN attentionMetrics :
                 /\ k \in DOMAIN attentionMetrics'
                 /\ attentionMetrics'[k] = attentionMetrics[k]
            /\ Cardinality(DOMAIN attentionMetrics')
                 = Cardinality(DOMAIN attentionMetrics) + Len(batch)
            /\ \A i \in DOMAIN batch :
                 \E k \in DOMAIN attentionMetrics' \ DOMAIN attentionMetrics :
                   attentionMetrics'[k].sessionId = batch[i].sessionId]_vars

\* C14: after DELETE /api/sessions/:id of a stored session, neither that
\* session nor a metric whose sessionId is that id is stored, and every other
\* session and metric is as it was.
C14_DeleteCascades ==
  [][\A id \in Ids : (DeleteSession(id) /\ id \in DOMAIN sessions) =>
       /\ id \notin DOMAIN sessions'
       /\ \A m \in DOMAIN attentionMetrics' :
            attentionMetrics'[m].sessionId # id
       /\ \A k \in DOMAIN sessions \ {id} :
            k \in DOMAIN sessions' /\ sessions'[k] = sessions[k]
       /\ DOMAIN sessions' \subseteq DOMAIN sessions
       /\ \A m \in DOMAIN attentionMetrics :
            attentionMetrics[m].sessionId # id =>
              /\ m \in DOMAIN attentionMetrics'
              /\ attentionMetrics'[m] = attentionMetrics[m]
       /\ DOMAIN attentionMetrics' \subseteq DOMAIN attentionMetrics]_vars

C14_Witness ==
  /\ response.req = "DELETE /api/sessions/:id"
  /\ response.existed
  /\ response.metricsDeleted = 1
  /\ DOMAIN sessions = {2}
  /\ DOMAIN attentionMetrics = {4}
  /\ attentionMetrics[4].sessionId = 2
  /\ uuids = 4

\* C15: in every reachable server state the sessionId of each stored
\* AttentionMetric is the id of a stored Session.
C15_ReferentialIntegrity ==
  \A m \in DOMAIN attentionMetrics :
    attentionMetrics[m].sessionId \in DOMAIN sessions

\* C16: GET /api/sessions/:id answers 200 with the stored session when a
\* session with that id is stored, and 404 when none is.
C16_GetSessionAnswers ==
  [][\A id \in Ids : GetSession(id) =>
       IF id \in DOMAIN sessions
       THEN /\ response'.status = 200
            /\ response' = [req |-> "GET /api/sessions/:id", status |-> 200,
                            body |-> sessions[id]]
       ELSE response'.status = 404]_vars

\* C17: GET /api/stats answers 200 with totalSessions the number of stored
\* sessions and averageAttention the mean of averageAttention over the
\* sessions where it is not null (0 when there is none).
C17_GetStatsAnswers ==
  [][GetStats =>
       LET withAttention ==
             {k \in DOMAIN sessions : sessions[k].averageAttention # NULL}
       IN  /\ response'.status = 200
           /\ response' =
                [req |-> "GET /api/stats", status |-> 200,
                 body |->
                   [totalSessions |-> Cardinality(DOMAIN sessions),
                    averageAttention |->
                      IF withAttention = {} THEN [sum |-> 0, count |-> 1]
                      ELSE [sum |-> SumAttention(sessions, withAttention),
                            count |-> Cardinality(withAttention)]]]]_vars

\* the score crosses from >= 50 to < 50 in this step, in an active, unpaused
\* session with a face detected before and after
ScoreCrossesBelow ==
  /\ alert.isSessionActive /\ ~alert.isPaused /\ alert.faceDetected
  /\ alert.attentionScore >= threshold
  /\ alert'.isSessionActive /\ ~alert'.isPaused /\ alert'.faceDetected
  /\ alert'.attentionScore < threshold

\* C18: a step sends an SMS alert request exactly when the attention score
\* crosses from >= 50 to < 50 in it during an active, unpaused session with a
\* face detected: one request per crossing, none without a crossing.
C18_OneSmsPerCrossing ==
  [][alert'.smsSent <=> ScoreCrossesBelow]_vars

\* C19: any two consecutive low-attention vibration/notification alerts are
\* at least 10 000 ms apart.
C19_AlertsThrottled ==
  Len(alert.vibrations) = 2 =>
    alert.vibrations[2] - alert.vibrations[1] >= ALERT_COOLDOWN

\* a second alert exactly 10 s after the first, for a change of the score
\* below 50 that sends no SMS
C19_Witness ==
  /\ alert.vibrations = <<100000, 110000>>
  /\ alert.vibrated
  /\ alert.now = 110000
  /\ alert.attentionScore = 0
  /\ alert.lastBelowThresholdRef
  /\ ~alert.smsSent

\* C20: in every reachable state of the page, a session that is active has a
\* non-empty current session id.
C20_ActiveHasSessionId ==
  isSessionActive => currentSessionId # NoSession

\* C21: the session summary PATCH of a Stop targets the session that was
\* current when that Stop was clicked.
C21_PatchTargetsStoppedSession ==
  \A i \in DOMAIN stops :
    stops[i].pc = "patch" => stops[i].target = stops[i].sid

\* the queue without the metrics of a batch
WithoutSent(queue, sent) ==
  LET notSent(m) == \A k \in DOMAIN sent : sent[k] # m
  IN  SelectSeq(queue, notSent)

\* C22: when a periodic batch save succeeds, the metrics that leave the
\* queue are the ones that were sent and no other: the queue afterwards is
\* the queue before without the sent metrics, in the same order.
C22_OnlySentLeaveQueue ==
  [][\A i \in DOMAIN batches : BatchDone(i, TRUE) =>
        pendingMetrics' = WithoutSent(pendingMetrics, batches[i].metricsToSave)]_vars

\* C23: a failed periodic batch save leaves the pending queue as it is, and a
\* tick that starts a save sends the whole queue in its order, so the tick
\* after a failure sends the same metrics followed by those enqueued since.
C23_FailedSaveKeepsQueue ==
  [][/\ \A i \in DOMAIN batches :
          BatchDone(i, FALSE) => pendingMetrics' = pendingMetrics
     /\ (MetricsTick /\ Len(batches') > Len(batches)) =>
          /\ batches'[Len(batches')].metricsToSave = pendingMetrics
          /\ pendingMetrics' = pendingMetrics]_vars

\* a save of the first sample has failed, nothing is stored, and the queue
\* holds that sample followed by one recorded while the request was in flight
C23_Witness ==
  /\ last.op = "batchFailed"
  /\ Len(pendingMetrics) = 2
  /\ pendingMetrics[1].n = 1 /\ pendingMetrics[2].n = 2
  /\ \A n \in DOMAIN srvStored : srvStored[n] = 0
  /\ ~isSavingMetricsRef /\ metricsInterval

\* C24: the in-progress flag is set exactly while a periodic batch request is
\* outstanding, whether or not the interval that issued it still runs.
C24_FlagIffRequestOutstanding ==
  isSavingMetricsRef <=> batches # <<>>

\* a request that was in flight when Pause cancelled the interval has failed,
\* and the flag is clear
C24_Witness ==
  /\ last.op = "batchFailed"
  /\ isSessionActive /\ isPaused /\ ~metricsInterval
  /\ batches = <<>> /\ ~isSavingMetricsRef
  /\ pendingMetrics # <<>>

\* C25: Stop does not reach its state reset when the session summary PATCH
\* has failed.
C25_ResetOnlyAfterSaves ==
  [][\A i \in DOMAIN stops :
        (StopPatchDone(i, FALSE) /\ ~StopPatchDone(i, TRUE)) =>
          last'.op # "reset"]_vars

\* C26: whenever Stop reaches its state reset, the server's record of the
\* session that was stopped has an endTime and a duration.
C26_StoppedSessionFinalized ==
  (last.op = "reset" /\ last.sid # NoSession) =>
    /\ srvSessions[last.sid].endTime # NULL
    /\ srvSessions[last.sid].duration # NULL

\* the metrics enqueued so far for session sid, saved or pending
EnqueuedIn(sid) == {n \in DOMAIN created : created[n].sessionId = sid}

\* C27: while a session id is set, the data-point count equals the number of
\* recorded scores and the number of metrics enqueued so far in the session,
\* and the blink counter equals the number of those metrics whose
\* blinkDetected is 1.
C27_AccumulatorsConsistent ==
  currentSessionId # NoSession =>
    /\ dataPointCount = Len(allScores)
    /\ Len(allScores) = Cardinality(EnqueuedIn(currentSessionId))
    /\ blinkCounter =
         Cardinality({n \in EnqueuedIn(currentSessionId) :
                        created[n].blinkDetected = 1})

\* two samples of session 1, one of them a blink; the first is saved and the
\* second is pending
C27_Witness ==
  /\ currentSessionId = 1 /\ isSessionActive
  /\ dataPointCount = 2 /\ blinkCounter = 1
  /\ Len(pendingMetrics) = 1 /\ pendingMetrics[1].blinkDetected = 1
  /\ srvStored = <<1, 0>>

\* C28: time spent paused is never counted in the session duration: the
\* duration of an active session is at most the time the session has spent
\* not paused, it does not change while the session is paused nor on Resume,
\* and it never decreases while the same session stays active.
C28_PausedTimeNotCounted ==
  /\ [](stopwatch.isSessionActive =>
          stopwatch.sessionDuration * 1000 <= stopwatch.unpaused)
  /\ [][/\ stopwatch.isSessionActive /\ stopwatch.isPaused
             => stopwatch'.sessionDuration = stopwatch.sessionDuration
        /\ (stopwatch.isSessionActive /\ stopwatch'.isSessionActive
             /\ stopwatch'.session = stopwatch.session)
             => stopwatch'.sessionDuration >= stopwatch.sessionDuration]_vars

\* C29: a sample is recorded only while the session is active and not
\* paused, with a face detected and a session id set.
C29_RecordedOnlyWhenTracking ==
  [][Len(created') > Len(created) =>
        /\ isSessionActive /\ ~isPaused
        /\ liveData'.faceDetected
        /\ currentSessionId # NoSession]_vars

\* C30: in every reachable server state the id field of each stored session
\* is the key under which it is stored.
C30_SessionIdIsKey ==
  \A k \in DOMAIN sessions : sessions[k].id = k

\* C31: for an id under which no session is stored, PATCH /api/sessions/:id
\* answers 404 and DELETE /api/sessions/:id answers without an error, and
\* both leave every stored session and metric as it was.
C31_MissingIdChangesNothing ==
  [][\A id \in Ids : id \notin DOMAIN sessions =>
        /\ \A body \in PatchBodies : PatchSession(id, body) =>
             /\ response'.status = 404
             /\ UNCHANGED <<sessions, attentionMetrics>>
        /\ DeleteSession(id) =>
             UNCHANGED <<sessions, attentionMetrics>>]_vars

\* no session is stored and every id is the sessionId of a stored metric; a
\* DELETE of an id that is not stored has been answered and the metrics are
\* all still there
C31_Witness ==
  /\ response.req = "DELETE /api/sessions/:id"
  /\ ~response.existed /\ response.metricsDeleted = 0
  /\ DOMAIN sessions = {}
  /\ {attentionMetrics[m].sessionId : m \in DOMAIN attentionMetrics} = Ids

====
